---- MODULE Spec2Model ----
(***************************************************************************)
(* A model of the collision core of beeline: the segment intersection      *)
(* primitive (collision.rs), the level loader and spawner timers           *)
(* (world.rs), and the player resolver and enemy overlap test (player.rs). *)
(*                                                                         *)
(* Lengths are fixed-point integers: one world unit is Unit model units.   *)
(* Angles are carried as the integer direction vector they point along     *)
(* (with its integer length), so cos and sin are exact rationals; the      *)
(* cursor positions the model offers are those for which this is exact.    *)
(* Times are integer milliseconds.                                         *)
(***************************************************************************)
EXTENDS Integers, Sequences, FiniteSets, TLC

VARIABLES
    appState,   \* State<AppState>: the current application state
    queued,     \* the state transition requested by state.set, or "none"
    file,       \* the level file load_level is given
    loaded,     \* the outcome of load_level (the World resource when it is Ok)
    walls,      \* the translations of the entities that carry Wall
    spawners,   \* the entities that carry Spawner: position, enemy, timer
    player,     \* the Player entity: its Transform and CollisionShape
    upgrades,   \* Res<Upgrades>
    enemies,    \* the live Enemy entities
    cursor,     \* window.cursor_position() of this frame
    dt,         \* time.delta() of this frame, in milliseconds
    frame,      \* frames completed
    fired,      \* per spawner: whether it emitted a spawn event in this frame
    hits,       \* how many times state.set(Death) was called in this frame
    order,      \* the systems of this frame in the order they ran
    last,       \* what the last run of move_player saw and did
    sched,      \* the history of spawn_projectiles' ticks: how many, whether
                \* their deltas were all dt0, each spawner's first event
    segs,       \* the two segments handed to intersect
    isect       \* the result of intersect on segs, once it is called

vars == <<appState, queued, file, loaded, walls, spawners, player, upgrades,
          enemies, cursor, dt, frame, fired, hits, order, last, sched, segs,
          isect>>

loadVars == <<file, loaded>>
sceneVars == <<walls, spawners, player, upgrades, enemies>>
frameVars == <<cursor, dt, frame, fired, hits, order, last, sched>>
probeVars == <<segs, isect>>

-----------------------------------------------------------------------------
(* Numbers *)

\* Fixed point: model units per world unit.
Unit == 2 * 5

Abs(n) == IF n < 0 THEN -n ELSE n

Min(a, b) == IF a <= b THEN a ELSE b

Sign(n) == IF n < 0 THEN -1 ELSE IF n > 0 THEN 1 ELSE 0

RECURSIVE Gcd(_, _)
Gcd(a, b) == IF b = 0 THEN a ELSE Gcd(b, a % b)

\* Vec2::length, for the vectors of the model, whose lengths are integers.
Length(x, y) ==
    IF x = 0 /\ y = 0 THEN 0
    ELSE LET g == Gcd(Abs(x), Abs(y))
             a == Abs(x) \div g
             b == Abs(y) \div g
         IN  g * (CHOOSE r \in 0..(a + b) :
                      r * r <= a * a + b * b /\ (r + 1) * (r + 1) > a * a + b * b)

Vec(x, y) == [x |-> x, y |-> y]

VAdd(a, b) == Vec(a.x + b.x, a.y + b.y)

VSub(a, b) == Vec(a.x - b.x, a.y - b.y)

Lowest(n, d, g) == IF g = 0 THEN [n |-> n, d |-> d] ELSE [n |-> n \div g, d |-> d \div g]

\* A rational n/d in lowest terms with d > 0, as the value of a float the code
\* divides out.
Rat(n, d) == Lowest(Sign(d) * n, Abs(d), Gcd(Abs(n), Abs(d)))

RatLe(a, b) == a.n * b.d <= b.n * a.d

RatLt(a, b) == a.n * b.d < b.n * a.d

RatEq(a, b) == a.n * b.d = b.n * a.d

RatIn01(a) == 0 <= a.n /\ a.n <= a.d

None == [some |-> FALSE]

Some(v) == [some |-> TRUE, v |-> v]

\* util::flt_equal(a, b): |a - b| < epsilon, for values given as integers
\* over `scale` (epsilon is 1/EPSILON_INV).
EPSILON_INV == 10000

FltEqual(a, b, scale) == Abs(a - b) * EPSILON_INV < scale

-----------------------------------------------------------------------------
(* collision.rs: segments *)

ParaLine(p, v) == [p |-> p, v |-> v]

\* The rest of intersect_lines once t1 is known (lines 60 to 73).
IntersectAt(p1, v1, p2, v2, t1) ==
    IF RatIn01(t1)
    THEN LET t2 == IF ~FltEqual(v2.y, 0, Unit)
                   THEN Rat(v1.y * t1.n + (p1.y - p2.y) * t1.d, v2.y * t1.d)
                   ELSE IF ~FltEqual(v2.x, 0, Unit)
                   THEN Rat(v1.x * t1.n + (p1.x - p2.x) * t1.d, v2.x * t1.d)
                   ELSE Rat(0, 1)
         IN  IF RatIn01(t2) THEN Some(t1) ELSE None
    ELSE None

\* intersect_lines(p1, v1, p2, v2): Some(t1) or None.
IntersectLines(p1, v1, p2, v2) ==
    LET divisor == v1.x * v2.y - v1.y * v2.x
    IN  IF FltEqual(divisor, 0, Unit * Unit) THEN None
        ELSE IntersectAt(p1, v1, p2, v2,
                 Rat(p2.x * v2.y - p1.x * v2.y + p1.y * v2.x - p2.y * v1.x,
                     divisor))

\* ParaLine::intersect
Intersect(a, b) == IntersectLines(a.p, a.v, b.p, b.v)

\* rect_to_lines(top_left, size)
RectToLines(top_left, size) ==
    LET size_x == Vec(size.x, 0)
        size_y == Vec(0, size.y)
    IN  << ParaLine(top_left, size_x),
           ParaLine(top_left, size_y),
           ParaLine(VAdd(top_left, size_x), size_y),
           ParaLine(VAdd(top_left, size_y), size_x) >>

-----------------------------------------------------------------------------
(* world.rs: the level loader *)

TILE_SIZE == 24

MISSILE_COOLDOWN == 100

LASER_COOLDOWN == 200

Digits == <<"0", "1", "2", "3", "4", "5", "6", "7", "8", "9">>

DigitValue(c) == (CHOOSE k \in 1..10 : Digits[k] = c) - 1

IsDigit(c) == \E k \in 1..10 : Digits[k] = c

RECURSIVE DecimalValue(_)
DecimalValue(s) ==
    IF s = <<>> THEN 0
    ELSE 10 * DecimalValue(SubSeq(s, 1, Len(s) - 1)) + DigitValue(s[Len(s)])

\* str::parse::<f32>, on the decimal integers (an optional sign, then
\* digits); anything else the model offers is an Err.
ParseF32(s) ==
    LET body == IF s # <<>> /\ Head(s) = "-" THEN Tail(s) ELSE s
    IN  IF body # <<>> /\ \A k \in 1..Len(body) : IsDigit(body[k])
        THEN Some(IF body = s THEN DecimalValue(body) ELSE -DecimalValue(body))
        ELSE None

RECURSIVE SplitFrom(_, _, _)
SplitFrom(s, sep, cur) ==
    IF s = <<>> THEN <<cur>>
    ELSE IF Head(s) = sep THEN <<cur>> \o SplitFrom(Tail(s), sep, <<>>)
    ELSE SplitFrom(Tail(s), sep, Append(cur, Head(s)))

\* str::split(sep): the pieces between the separators (one piece, the empty
\* one, for the empty string).
Split(s, sep) == SplitFrom(s, sep, <<>>)

\* A faulty timer, which starts with its duration already elapsed.
TimerFromSecondsElapsed(cooldown) == [duration |-> cooldown, elapsed |-> cooldown]

\* Timer::from_seconds(cooldown, true): a repeating timer, nothing elapsed.
TimerFromSeconds(cooldown) == [duration |-> cooldown, elapsed |-> 0]

\* Spawner::new(enemy)
SpawnerNew(enemy) ==
    LET cooldown == IF enemy.kind = "Missile" THEN MISSILE_COOLDOWN
                    ELSE LASER_COOLDOWN
    IN  [enemy |-> enemy, timer |-> TimerFromSeconds(cooldown)]

EmptyTile == [kind |-> "none"]

WallTile == [kind |-> "wall"]

SpawnerTile(s) == [kind |-> "spawner", spawner |-> s]

Panic(msg, value) == [kind |-> "panic", msg |-> msg, value |-> value]

Cell(tile, star) == [kind |-> "tile", tile |-> tile, star |-> star]

\* The 'L' arm of the match: value[2..] parsed and unwrapped.
LaserCell(value, angle) ==
    IF angle.some
    THEN Cell(SpawnerTile(SpawnerNew([kind |-> "Laser", angle |-> angle.v])), FALSE)
    ELSE Panic("unwrap on Err", value)

\* The body of load_level's inner loop for one cell: the tile it pushes (and
\* whether it sets start), or the panic it ends in.
ParseCell(value) ==
    IF value = <<>> THEN Panic("unwrap on None", value)
    ELSE IF Head(value) = "." THEN Cell(EmptyTile, FALSE)
    ELSE IF Head(value) = "#" THEN Cell(WallTile, FALSE)
    ELSE IF Head(value) = "L" THEN
        IF Len(value) < 2 THEN Panic("slice out of range", value)
        ELSE LaserCell(value, ParseF32(SubSeq(value, 3, Len(value))))
    ELSE IF Head(value) = "M"
        THEN Cell(SpawnerTile(SpawnerNew([kind |-> "Missile"])), FALSE)
    ELSE IF Head(value) = "*" THEN Cell(EmptyTile, TRUE)
    ELSE Panic("Invalid value", value)

\* The inner loop over the cells of line i, from cell j on: acc is the state
\* (start, row) it has built, c the cell j parsed.
RECURSIVE LoadCells(_, _, _, _)
LoadCell(cells, i, j, acc, c) ==
    IF c.kind = "panic" THEN c
    ELSE LoadCells(cells, i, j + 1,
             [kind |-> "ok",
              start |-> IF c.star THEN Some(<<j - 1, i - 1>>) ELSE acc.start,
              row |-> Append(acc.row, c.tile)])

LoadCells(cells, i, j, acc) ==
    IF j > Len(cells) THEN acc
    ELSE LoadCell(cells, i, j, acc, ParseCell(cells[j]))

\* The outer loop over the lines that were read, from line i on: r is what
\* the inner loop made of line i.
RECURSIVE LoadLines(_, _, _)
LoadLine(lines, i, acc, r) ==
    IF r.kind = "panic" THEN r
    ELSE LoadLines(lines, i + 1,
             [kind |-> "ok", start |-> r.start,
              layout |-> Append(acc.layout, r.row)])

LoadLines(lines, i, acc) ==
    IF i > Len(lines) THEN acc
    ELSE LoadLine(lines, i, acc,
             LoadCells(Split(lines[i], "\t"), i, 1,
                 [kind |-> "ok", start |-> acc.start, row |-> <<>>]))

RECURSIVE Flatten(_)
\* Iterator::flatten over the io::Result lines: the Ok ones, in order.
Flatten(results) ==
    IF results = <<>> THEN <<>>
    ELSE IF Head(results).ok THEN <<Head(results).text>> \o Flatten(Tail(results))
    ELSE Flatten(Tail(results))

\* The Ok(Self { .. }) load_level ends in, or the panic of its loops.
LoadEnd(f, r) ==
    IF r.kind = "panic" THEN r
    ELSE [kind |-> "Ok",
          world |-> [world_type |-> [kind |-> "Level", level |-> f.level],
                     player_start_coordinates |->
                         IF r.start.some THEN r.start.v ELSE <<0, 0>>,
                     layout |-> r.layout]]

\* World::load_level(path, level): Ok(World), Err(io::Error) or a panic.
LoadLevel(f) ==
    IF ~f.open_ok THEN [kind |-> "Err"]
    ELSE LoadEnd(f, LoadLines(Flatten(f.lines), 1,
                        [kind |-> "ok", start |-> None, layout |-> <<>>]))

-----------------------------------------------------------------------------
(* world.rs, player.rs: spawning the level *)

PLAYER_SIZE == 24

PLAYER_VELOCITY == 500

\* Upgrades::has_upgrade(flag)
HasUpgrade(ups, flag) == flag \in ups

\* The direction an angle points along, as an integer vector and its length:
\* cos = x/len and sin = y/len.
Dir(x, y) == [x |-> x, y |-> y, len |-> Length(x, y)]

\* f32::atan2(y, x): the angle of (x, y), and angle 0 for the zero vector.
Atan2(y, x) ==
    IF x = 0 /\ y = 0 THEN Dir(1, 0)
    ELSE LET g == Gcd(Abs(x), Abs(y)) IN Dir(x \div g, y \div g)

\* angle - PI / 2
MinusHalfPi(angle) == [x |-> angle.y, y |-> -angle.x, len |-> angle.len]

\* util::polar_to_cartesian(angle, r) = (r cos(angle), r sin(angle))
PolarToCartesian(angle, r) ==
    Vec((r * angle.x) \div angle.len, (r * angle.y) \div angle.len)

\* Transform::default().rotation, as the velocity angle it would be set from
\* (rotation = angle - PI / 2).
DefaultAngle == Dir(0, 1)

\* A faulty from_xyz call, with line and column exchanged.
TileTransformSwapped(i, j) == Vec(i * TILE_SIZE * Unit, -(j * TILE_SIZE * Unit))

\* Transform::from_xyz(j * Tile::SIZE, -(i * Tile::SIZE), 0) for the grid cell
\* in line i, column j (both from 0).
TileTransform(i, j) == Vec(j * TILE_SIZE * Unit, -(i * TILE_SIZE * Unit))

\* player::spawn_player(.., upgrades, start_location): the Transform (scale in
\* halves: 2 is 1.0) and the CollisionShape, whose own transform is the
\* identity until update_collision_transforms sets it.
SpawnPlayer(ups, start_location) ==
    [pos |-> start_location,
     angle |-> DefaultAngle,
     scale2 |-> IF HasUpgrade(ups, "SHRINK") THEN 1 ELSE 2,
     shape_size |-> IF HasUpgrade(ups, "SHRINK")
                    THEN (PLAYER_SIZE * Unit) \div 2 ELSE PLAYER_SIZE * Unit,
     shape_at |-> Vec(0, 0),
     shape_scale2 |-> 2,
     global |-> [at |-> Vec(0, 0), scale2 |-> 2],
     t_changed |-> TRUE,
     g_changed |-> TRUE]

\* The cells of the layout in the order spawn_world visits them.
RECURSIVE GridCells(_, _, _)
GridCells(layout, i, j) ==
    IF i > Len(layout) THEN <<>>
    ELSE IF j > Len(layout[i]) THEN GridCells(layout, i + 1, 1)
    ELSE <<[i |-> i - 1, j |-> j - 1, tile |-> layout[i][j]]>>
         \o GridCells(layout, i, j + 1)

IsWall(c) == c.tile.kind = "wall"

IsSpawner(c) == c.tile.kind = "spawner"

\* The entities spawn_world makes of the wall cells and the spawner cells,
\* and the player.
SpawnCells(wallCells, spawnerCells, ups, start) ==
    [walls |-> [k \in 1..Len(wallCells) |->
                   TileTransform(wallCells[k].i, wallCells[k].j)],
     spawners |-> [k \in 1..Len(spawnerCells) |->
                      [pos |-> TileTransform(spawnerCells[k].i, spawnerCells[k].j),
                       enemy |-> spawnerCells[k].tile.spawner.enemy,
                       timer |-> spawnerCells[k].tile.spawner.timer]],
     player |-> SpawnPlayer(ups,
                    Vec(start[1] * TILE_SIZE * Unit, -(start[2] * TILE_SIZE * Unit)))]

\* spawn_world(world, upgrades): the entities it spawns.
SpawnWorld(world, ups) ==
    SpawnCells(SelectSeq(GridCells(world.layout, 1, 1), IsWall),
               SelectSeq(GridCells(world.layout, 1, 1), IsSpawner),
               ups, world.player_start_coordinates)

-----------------------------------------------------------------------------
(* player.rs: move_player *)

WINDOW_WIDTH == 1280

WINDOW_HEIGHT == 720

\* A faulty velocity, which leaves DOUBLE_SPEED out.
VelocityAtSingle(velocity_angle, length, magnitude_cap, delta, ups) ==
    [angle |-> velocity_angle,
     v |-> PolarToCartesian(velocity_angle,
               (Min(length, magnitude_cap) * PLAYER_VELOCITY * Unit * delta)
               \div (magnitude_cap * 1000))]

\* polar_to_cartesian(velocity_angle, velocity_scale * Player::VELOCITY)
\* * delta_seconds * (2.0 or 1.0) of lines 99 to 111, for a cursor at
\* `length` from the centre.  The model's cursors and deltas make every
\* division exact.
VelocityAt(velocity_angle, length, magnitude_cap, delta, ups) ==
    [angle |-> velocity_angle,
     v |-> PolarToCartesian(velocity_angle,
               (Min(length, magnitude_cap) * PLAYER_VELOCITY * Unit * delta
                * (IF HasUpgrade(ups, "DOUBLE_SPEED") THEN 2 ELSE 1))
               \div (magnitude_cap * 1000))]

\* The velocity move_player derives from relative_pos, with its angle.
VelocityOf(relative_pos, delta, ups) ==
    VelocityAt(Atan2(relative_pos.y, relative_pos.x),
               Length(relative_pos.x, relative_pos.y),
               Min(WINDOW_WIDTH, WINDOW_HEIGHT) \div 4, delta, ups)

\* The velocity move_player derives from the cursor (lines 95 to 111).
Velocity(cursor_pos, delta, ups) ==
    VelocityOf(Vec(cursor_pos.x - WINDOW_WIDTH \div 2,
                   cursor_pos.y - WINDOW_HEIGHT \div 2), delta, ups)

\* The closure of filter_map: (t, wall_line) when the probe hits the line.
HitOf(t, wall_line) ==
    IF t.some THEN <<[t |-> t.v, line |-> wall_line]>> ELSE <<>>

\* filter_map over wall_lines: the (t, wall_line) of the lines the probe hits,
\* in the order of wall_lines.
RECURSIVE FilterHits(_, _, _)
FilterHits(player_normal, wall_lines, k) ==
    IF k > Len(wall_lines) THEN <<>>
    ELSE HitOf(Intersect(player_normal, wall_lines[k]), wall_lines[k])
         \o FilterHits(player_normal, wall_lines, k + 1)

\* reduce(|acc, next| if acc.0 < next.0 { acc } else { next })
RECURSIVE Reduce(_, _)
Reduce(acc, rest) ==
    IF rest = <<>> THEN acc
    ELSE Reduce(IF RatLt(acc.t, Head(rest).t) THEN acc ELSE Head(rest), Tail(rest))

\* Iterator::reduce: None for no hit.
ReduceHits(found) ==
    IF found = <<>> THEN None ELSE Some(Reduce(Head(found), Tail(found)))

\* `collide` for one wall: the hit the reduce keeps, or None.
Collide(player_normal, wall) ==
    ReduceHits(FilterHits(player_normal,
        RectToLines(VSub(wall, Vec((TILE_SIZE * Unit) \div 2, (TILE_SIZE * Unit) \div 2)),
                    Vec(TILE_SIZE * Unit, TILE_SIZE * Unit)), 1))

\* The walls loop from wall k on: the first wall, in iteration order, that
\* has a hit (c is wall k's `collide`).
RECURSIVE FirstCollide(_, _, _)
CollideOr(player_normal, ws, k, c) ==
    IF c.some THEN Some([t |-> c.v.t, line |-> c.v.line, wall |-> k])
    ELSE FirstCollide(player_normal, ws, k + 1)

FirstCollide(player_normal, ws, k) ==
    IF k > Len(ws) THEN None
    ELSE CollideOr(player_normal, ws, k, Collide(player_normal, ws[k]))

\* push for the corner at corner_pos (lines 161 to 165).
PushTo(vert_collide, corner_pos, collide_line) ==
    [vert |-> vert_collide,
     push |-> IF vert_collide
              THEN Vec(collide_line.p.x - corner_pos.x, 0)
              ELSE Vec(0, collide_line.p.y - corner_pos.y)]

\* corner_pos (lines 150 to 158): translation + corner_x_offset * bee_basis.0
\* + SIZE/2 * bee_basis.1.
CornerPos(translation, velocity_angle, top_right_corner_collide, half) ==
    VAdd(translation,
         VAdd(PolarToCartesian(MinusHalfPi(velocity_angle),
                               IF top_right_corner_collide THEN half ELSE -half),
              PolarToCartesian(velocity_angle, half)))

\* top_right_corner_collide (lines 140 to 147).
TopRightCornerCollide(velocity, vert_collide) ==
    IF vert_collide
    THEN ~((velocity.x >= 0) # (velocity.y >= 0))
    ELSE (velocity.x >= 0) # (velocity.y >= 0)

\* The push of lines 140 to 165 for the chosen collide_line.
Push(translation, velocity_angle, velocity, collide_line) ==
    PushTo(FltEqual(collide_line.v.x, 0, Unit),
           CornerPos(translation, velocity_angle,
                     TopRightCornerCollide(velocity,
                                           FltEqual(collide_line.v.x, 0, Unit)),
                     (PLAYER_SIZE * Unit) \div 2),
           collide_line)

\* new_x and new_y after the walls loop (lines 121, 122, 167, 168).
NewPos(translation, velocity, hit, push) ==
    IF hit
    THEN Vec((translation.x + velocity.x) + (push.x - velocity.x),
             (translation.y + velocity.y) + (push.y - velocity.y))
    ELSE Vec(translation.x + velocity.x, translation.y + velocity.y)

\* The loop's body for the wall that has a hit.
Resolved(p, vel, c, ps) ==
    [moved |-> TRUE, angle |-> vel.angle, velocity |-> vel.v,
     hit |-> TRUE, t |-> c.t, line |-> c.line, wall |-> c.wall,
     vert |-> ps.vert, push |-> ps.push,
     pos |-> NewPos(p.pos, vel.v, TRUE, ps.push)]

\* Lines 121 to 173 given the outcome c of the walls loop.
Resolve(p, vel, c) ==
    IF c.some
    THEN Resolved(p, vel, c.v, Push(p.pos, vel.angle, vel.v, c.v.line))
    ELSE [moved |-> TRUE, angle |-> vel.angle, velocity |-> vel.v,
          hit |-> FALSE, pos |-> NewPos(p.pos, vel.v, FALSE, Vec(0, 0))]

\* Lines 113 to 173: the probe from the front of the bee, cast at the walls.
MoveWith(p, ws, vel) ==
    Resolve(p, vel,
        FirstCollide(ParaLine(VAdd(p.pos, PolarToCartesian(vel.angle,
                                              (PLAYER_SIZE * Unit) \div 2)),
                              vel.v),
                     ws, 1))

\* A faulty move_player, which takes an absent cursor for one at the window's
\* right edge.
MoveResultCursorless(p, ws, cur, delta, ups) ==
    MoveWith(p, ws,
        Velocity(IF cur.some THEN cur.v ELSE Vec(WINDOW_WIDTH, WINDOW_HEIGHT \div 2),
                 delta, ups))

\* What one run of move_player does to the player's Transform.
MoveResult(p, ws, cur, delta, ups) ==
    IF ~cur.some
    THEN [moved |-> FALSE, pos |-> p.pos, angle |-> p.angle, hit |-> FALSE]
    ELSE MoveWith(p, ws, Velocity(cur.v, delta, ups))

-----------------------------------------------------------------------------
(* The systems of one frame *)

ENEMY_SIZE == 16

ENEMY_STEP == 12

\* The end of Timer::tick for a repeating timer whose stopwatch has ticked to
\* `elapsed`: the elapsed time wraps by as many whole durations as it holds.
TimerWrap(timer, elapsed) ==
    IF elapsed >= timer.duration
    THEN [timer |-> [timer EXCEPT !.elapsed =
                        elapsed - timer.duration * (elapsed \div timer.duration)],
          just_finished |-> TRUE]
    ELSE [timer |-> [timer EXCEPT !.elapsed = elapsed], just_finished |-> FALSE]

\* Timer::tick(delta), and just_finished() after it.
TimerTick(timer, delta) == TimerWrap(timer, timer.elapsed + delta)

\* Enemy::spawn(.., spawn_position): the entity the command creates.
EnemySpawn(enemy, spawn_position) ==
    [enemy |-> enemy,
     pos |-> spawn_position,
     scale2 |-> 2,
     shape_size |-> ENEMY_SIZE * Unit,
     shape_at |-> Vec(0, 0),
     shape_scale2 |-> 2,
     s_changed |-> TRUE,
     global |-> [at |-> Vec(0, 0), scale2 |-> 2],
     t_changed |-> TRUE,
     g_changed |-> TRUE]

\* The body of update_collision_transforms' loop, which visits the shapes
\* whose GlobalTransform changed since the system last ran.
SetTransform(body) ==
    IF body.g_changed
    THEN [body EXCEPT !.shape_at = body.global.at,
                      !.shape_scale2 = body.global.scale2,
                      !.g_changed = FALSE]
    ELSE body

\* The transform propagation after the update stage: GlobalTransform follows
\* a Transform that changed.
Propagate(body) ==
    IF body.t_changed
    THEN [body EXCEPT !.global = [at |-> body.pos, scale2 |-> body.scale2],
                      !.g_changed = TRUE,
                      !.t_changed = FALSE]
    ELSE body

\* The half extent of a shape: half its size, scaled (scale2 is in halves).
HalfExtent4(body) == body.shape_size * body.shape_scale2

\* CollisionShape::is_collided_with, for two axis-aligned rectangles: their
\* centres are closer than the sum of the half extents on both axes.
IsCollidedWith(a, b) ==
    /\ 4 * Abs(a.shape_at.x - b.shape_at.x) < HalfExtent4(a) + HalfExtent4(b)
    /\ 4 * Abs(a.shape_at.y - b.shape_at.y) < HalfExtent4(a) + HalfExtent4(b)

\* A faulty loop, whose test of is_collided_with is negated.
RECURSIVE DetectFromInverted(_, _, _)
DetectFromInverted(p, es, k) ==
    IF k > Len(es) THEN 0
    ELSE IF es[k].s_changed /\ ~IsCollidedWith(p, es[k]) THEN 1
    ELSE DetectFromInverted(p, es, k + 1)

\* detect_enemy_collision's loop from enemy k on: how many times it calls
\* state.set(AppState::Death).  It returns at the first.
RECURSIVE DetectFrom(_, _, _)
DetectFrom(p, es, k) ==
    IF k > Len(es) THEN 0
    ELSE IF es[k].s_changed /\ IsCollidedWith(p, es[k]) THEN 1
    ELSE DetectFrom(p, es, k + 1)

Systems == {"update_collision_transforms", "spawn_projectiles",
            "move_player", "detect_enemy_collision"}

HasRun(sys) == \E k \in 1..Len(order) : order[k] = sys

\* A system of SystemSet::on_update(AppState::Game) may run: the state is Game
\* and it has not run in this frame.
Runnable(sys) == appState = "Game" /\ ~HasRun(sys)

UpdateCollisionTransforms ==
    /\ Runnable("update_collision_transforms")
    /\ player' = SetTransform(player)
    /\ enemies' = [k \in 1..Len(enemies) |->
                      IF enemies[k].g_changed
                      THEN [SetTransform(enemies[k]) EXCEPT !.s_changed = TRUE]
                      ELSE enemies[k]]
    /\ order' = Append(order, "update_collision_transforms")
    /\ UNCHANGED <<appState, queued, loadVars, walls, spawners, upgrades>>
    /\ UNCHANGED <<cursor, dt, frame, fired, hits, last, sched, probeVars>>

SpawnProjectiles ==
    /\ Runnable("spawn_projectiles")
    /\ spawners' = [k \in 1..Len(spawners) |->
                       [spawners[k] EXCEPT
                            !.timer = TimerTick(spawners[k].timer, dt).timer]]
    /\ fired' = [k \in 1..Len(spawners) |->
                    TimerTick(spawners[k].timer, dt).just_finished]
    /\ sched' = [ticks |-> sched.ticks + 1,
                 dt0 |-> IF sched.ticks = 0 THEN dt ELSE sched.dt0,
                 same |-> sched.same /\ (sched.ticks = 0 \/ dt = sched.dt0),
                 first |-> [k \in 1..Len(spawners) |->
                               IF sched.first[k] = 0
                                  /\ TimerTick(spawners[k].timer, dt).just_finished
                               THEN sched.ticks + 1 ELSE sched.first[k]]]
    /\ order' = Append(order, "spawn_projectiles")
    /\ UNCHANGED <<appState, queued, loadVars, walls, player, upgrades, enemies>>
    /\ UNCHANGED <<cursor, dt, frame, hits, last, probeVars>>

MovePlayer ==
    /\ Runnable("move_player")
    /\ \E res \in {MoveResult(player, walls, cursor, dt, upgrades)} :
           /\ player' = [player EXCEPT !.pos = res.pos,
                                       !.angle = res.angle,
                                       !.t_changed = @ \/ res.moved]
           /\ last' = [ran |-> TRUE, pos |-> player.pos, angle |-> player.angle,
                       res |-> res]
    /\ order' = Append(order, "move_player")
    /\ UNCHANGED <<appState, queued, loadVars, walls, spawners, upgrades, enemies>>
    /\ UNCHANGED <<cursor, dt, frame, fired, hits, sched, probeVars>>

DetectEnemyCollision ==
    /\ Runnable("detect_enemy_collision")
    /\ \E n \in {DetectFrom(player, enemies, 1)} :
           /\ hits' = n
           /\ queued' = IF n > 0 THEN "Death" ELSE queued
    /\ enemies' = [k \in 1..Len(enemies) |-> [enemies[k] EXCEPT !.s_changed = FALSE]]
    /\ order' = Append(order, "detect_enemy_collision")
    /\ UNCHANGED <<appState, loadVars, walls, spawners, player, upgrades>>
    /\ UNCHANGED <<cursor, dt, frame, fired, last, sched, probeVars>>

\* The enemy systems' part of a frame: an enemy that moves steps towards the
\* player on each axis.
Pursue(e, target) ==
    [e EXCEPT !.pos = Vec(e.pos.x + ENEMY_STEP * Unit * Sign(target.x - e.pos.x),
                          e.pos.y + ENEMY_STEP * Unit * Sign(target.y - e.pos.y)),
              !.t_changed = TRUE]

\* The spawn commands of this frame, applied: one enemy per spawner that fired.
RECURSIVE Spawned(_, _, _)
Spawned(sp, f, k) ==
    IF k > Len(sp) THEN <<>>
    ELSE (IF f[k] THEN <<EnemySpawn(sp[k].enemy, sp[k].pos)>> ELSE <<>>)
         \o Spawned(sp, f, k + 1)

NoPlayer == [pos |-> Vec(0, 0), angle |-> DefaultAngle, scale2 |-> 2,
             shape_size |-> 0, shape_at |-> Vec(0, 0), shape_scale2 |-> 2,
             global |-> [at |-> Vec(0, 0), scale2 |-> 2],
             t_changed |-> FALSE, g_changed |-> FALSE]

\* The end of a frame in which the systems of `systems` have all run: the
\* commands are applied, the enemies move, the transforms propagate, a queued
\* state transition happens (on_exit(Game) despawns every entity), and the
\* next frame's delta and cursor arrive.
EndFrame(systems, dts, cursors, maxFrames, maxEnemies) ==
    /\ appState = "Game"
    /\ \A sys \in systems : HasRun(sys)
    /\ frame < maxFrames
    /\ \E born \in {Spawned(spawners, fired, 1)} :
           /\ Len(enemies) + Len(born) <= maxEnemies
           /\ IF queued = "none"
              THEN /\ \E moves \in [1..Len(enemies) -> BOOLEAN] :
                          enemies' = [k \in 1..Len(enemies) |->
                                         Propagate(IF moves[k]
                                                   THEN Pursue(enemies[k], player.pos)
                                                   ELSE enemies[k])]
                                     \o [k \in 1..Len(born) |-> Propagate(born[k])]
                   /\ player' = Propagate(player)
                   /\ UNCHANGED <<appState, walls, spawners>>
              ELSE /\ appState' = queued
                   /\ enemies' = <<>>
                   /\ walls' = <<>>
                   /\ spawners' = <<>>
                   /\ player' = NoPlayer
    /\ queued' = "none"
    /\ fired' = [k \in 1..Len(spawners') |-> FALSE]
    /\ hits' = 0
    /\ order' = <<>>
    /\ frame' = frame + 1
    /\ dt' \in dts
    /\ cursor' \in cursors
    /\ UNCHANGED <<loadVars, upgrades, last, sched, probeVars>>

-----------------------------------------------------------------------------
(* level_select.rs and the state transitions *)

NotLoaded == [kind |-> "none"]

NoTicks == [ticks |-> 0, dt0 |-> 0, same |-> TRUE, first |-> <<>>]

\* manage_level_select_buttons, on a click: the level is loaded and unwrapped
\* (an Err or a panic ends the process), the World is inserted and the state
\* Game is requested.
ManageLevelSelectButtons ==
    /\ appState = "LevelSelect"
    /\ queued = "none"
    /\ loaded = NotLoaded
    /\ \E r \in {LoadLevel(file)} :
           /\ loaded' = r
           /\ IF r.kind = "Ok"
              THEN queued' = "Game" /\ UNCHANGED appState
              ELSE appState' = "Aborted" /\ UNCHANGED queued
    /\ UNCHANGED <<file, sceneVars, frameVars, probeVars>>

\* The transition LevelSelect -> Game: on_enter(Game) runs spawn_world, and
\* the first frame's delta and cursor arrive.
EnterGame(dts, cursors) ==
    /\ appState = "LevelSelect"
    /\ queued = "Game"
    /\ appState' = "Game"
    /\ queued' = "none"
    /\ \E scene \in {SpawnWorld(loaded.world, upgrades)} :
           /\ walls' = scene.walls
           /\ spawners' = scene.spawners
           /\ player' = scene.player
           /\ fired' = [k \in 1..Len(scene.spawners) |-> FALSE]
           /\ sched' = [NoTicks EXCEPT
                            !.first = [k \in 1..Len(scene.spawners) |-> 0]]
    /\ enemies' = <<>>
    /\ dt' \in dts
    /\ cursor' \in cursors
    /\ UNCHANGED <<loadVars, upgrades, frame, hits, order, last, probeVars>>

Unset == [called |-> FALSE]

\* ParaLine::intersect called on the two segments.
IntersectCall ==
    /\ isect = Unset
    /\ isect' = [called |-> TRUE, result |-> Intersect(segs.a, segs.b)]
    /\ UNCHANGED <<appState, queued, loadVars, sceneVars, frameVars, segs>>

-----------------------------------------------------------------------------
(* Inputs and bounds *)

MaxRows == 2

MaxMoveFrames == 1

MaxFrames == 11

MaxEnemies == 1

ProbeMax == 2

RECURSIVE JoinTabs(_)
\* The text of a line whose cells are `cells`.
JoinTabs(cells) ==
    IF Len(cells) = 1 THEN cells[1]
    ELSE cells[1] \o <<"\t">> \o JoinTabs(Tail(cells))

Dot == <<".">>
Hash == <<"#">>
Star == <<"*">>
Missile == <<"M">>
Laser1 == <<"L", ":", "1">>
Laser12 == <<"L", ":", "-", "1", "2">>

\* The lines the model's files are made of: well-formed ones, and ones with
\* a cell outside the grammar.
GoodRows == { <<Dot, Hash, Dot>>, <<Dot, Star, Dot>>, <<Hash, Missile>>,
              <<Laser1, Star>>, <<Laser12>>, <<Dot, Dot, Hash>> }

BadRows == { <<Dot, <<"x">> >>, << <<>> >>, <<Hash, <<"L", ":", "x">> >>,
             << <<"L">>, Dot >>, << <<".", "#">> >>, << <<"L", "x", "1">> >> }

\* What reading a line gives: its text, or an io::Error.
LineResults == { [ok |-> TRUE, text |-> JoinTabs(r)] : r \in GoodRows \cup BadRows }
               \cup { [ok |-> FALSE, text |-> <<>>] }

Files == { [open_ok |-> FALSE, level |-> 0, lines |-> <<>>] }
         \cup { [open_ok |-> TRUE, level |-> 0, lines |-> ls] :
                    ls \in UNION { [1..n -> LineResults] : n \in 0..MaxRows } }

LevelFile(rows) ==
    [open_ok |-> TRUE, level |-> 0,
     lines |-> [k \in 1..Len(rows) |-> [ok |-> TRUE, text |-> JoinTabs(rows[k])]]]

\* The levels the game is played on in the model.
GameLevels == { LevelFile(<< <<Dot, Hash, Dot>>, <<Dot, Star, Dot>> >>),
                LevelFile(<< <<Hash, Dot, Missile>>, <<Dot, Star, Hash>> >>) }

\* The levels move_player is run on: those, and one with two walls side by
\* side above the player.
MoveLevels == GameLevels \cup { LevelFile(<< <<Hash, Hash>>, <<Dot, Star>> >>) }

UpgradeSets == SUBSET {"SHRINK", "DOUBLE_SPEED"}

Centre == Vec(WINDOW_WIDTH \div 2, WINDOW_HEIGHT \div 2)

\* Cursor positions, relative to the window's centre: along the axes and
\* along 3-4-5 directions, beyond the magnitude cap and inside it.
Relatives == { Vec(300, 0), Vec(-300, 0), Vec(0, 300), Vec(0, -300),
               Vec(180, 240), Vec(-240, -180), Vec(240, -180), Vec(-54, 72),
               Vec(0, 0) }

MoveCursors == { None } \cup { Some(VAdd(Centre, r)) : r \in Relatives }

MoveDts == {10, 20}

FrameCursors == { Some(Centre) }

FrameDts == {10, 250}

\* The points and vectors of the segments given to intersect: whole
\* coordinates from -1 to max.
ProbeVecs(max) == { Vec(x * Unit, y * Unit) : x \in -1..max, y \in -1..max }

-----------------------------------------------------------------------------
(* Specifications *)

NoSegs == [a |-> ParaLine(Vec(0, 0), Vec(0, 0)), b |-> ParaLine(Vec(0, 0), Vec(0, 0))]

ProbeSegs(max) ==
    { [a |-> ParaLine(p1, v1), b |-> ParaLine(p2, v2)] :
          p1 \in ProbeVecs(max), v1 \in ProbeVecs(max),
          p2 \in ProbeVecs(max), v2 \in ProbeVecs(max) }

InitWith(files, upgradeSets, segSet) ==
    /\ appState = "LevelSelect"
    /\ queued = "none"
    /\ file \in files
    /\ loaded = NotLoaded
    /\ walls = <<>>
    /\ spawners = <<>>
    /\ player = NoPlayer
    /\ upgrades \in upgradeSets
    /\ enemies = <<>>
    /\ cursor = None
    /\ dt = 0
    /\ frame = 0
    /\ fired = <<>>
    /\ hits = 0
    /\ order = <<>>
    /\ last = [ran |-> FALSE]
    /\ sched = NoTicks
    /\ segs \in segSet
    /\ isect = Unset

\* The resolver alone: a level is loaded and move_player runs frame by frame.
Init == InitWith(MoveLevels, UpgradeSets, {NoSegs})

Next ==
    \/ ManageLevelSelectButtons
    \/ EnterGame(MoveDts, MoveCursors)
    \/ MovePlayer
    \/ EndFrame({"move_player"}, MoveDts, MoveCursors, MaxMoveFrames, MaxEnemies)

Spec == Init /\ [][Next]_vars

\* The loader: any of the model's files is loaded and its world spawned.
InitLoad == InitWith(Files, {{}}, {NoSegs})

NextLoad ==
    \/ ManageLevelSelectButtons
    \/ EnterGame(MoveDts, {None})

SpecLoad == InitLoad /\ [][NextLoad]_vars

\* A frame of the game: the four systems of on_update(Game), in any order.
InitFrame == InitWith(GameLevels, {{}}, {NoSegs})

NextFrame ==
    \/ ManageLevelSelectButtons
    \/ EnterGame(FrameDts, FrameCursors)
    \/ UpdateCollisionTransforms
    \/ SpawnProjectiles
    \/ MovePlayer
    \/ DetectEnemyCollision
    \/ EndFrame(Systems, FrameDts, FrameCursors, MaxFrames, MaxEnemies)

SpecFrame == InitFrame /\ [][NextFrame]_vars

\* The intersection primitive on its own.
InitIntersect == InitWith({LevelFile(<< <<Star>> >>)}, {{}}, ProbeSegs(ProbeMax))

NextIntersect == IntersectCall

SpecIntersect == InitIntersect /\ [][NextIntersect]_vars

-----------------------------------------------------------------------------
(* Claims *)

\* The cross product of two vectors.
Cross(a, b) == a.x * b.y - a.y * b.x

\* The segments a and b meet in one point: they are not parallel, and the
\* parameters of the point where their lines cross, ((p2 - p1) x v2)/(v1 x v2)
\* on a and ((p2 - p1) x v1)/(v1 x v2) on b, are both in [0, 1].
Meet(a, b) ==
    IF Cross(a.v, b.v) = 0 THEN None
    ELSE IF RatIn01(Rat(Cross(VSub(b.p, a.p), b.v), Cross(a.v, b.v)))
            /\ RatIn01(Rat(Cross(VSub(b.p, a.p), a.v), Cross(a.v, b.v)))
    THEN Some(Rat(Cross(VSub(b.p, a.p), b.v), Cross(a.v, b.v)))
    ELSE None

\* Four times the half extent of the player's rectangle.
PlayerHalf4 == player.shape_size * player.scale2

Penetrates(wall) ==
    /\ 4 * Abs(player.pos.x - wall.x) < PlayerHalf4 + 2 * TILE_SIZE * Unit
    /\ 4 * Abs(player.pos.y - wall.y) < PlayerHalf4 + 2 * TILE_SIZE * Unit

\* C1: once the game runs, the player's rectangle never overlaps the interior
\* of a wall square, however many times move_player has run.
C1_NonPenetration ==
    appState = "Game" => \A k \in 1..Len(walls) : ~Penetrates(walls[k])

\* C2: intersect returns Some(t1) exactly when the two segments meet at
\* parameters t1, t2 in [0, 1], with that t1, and None otherwise (None for
\* every parallel pair).
C2_IntersectContract ==
    isect.called =>
        /\ isect.result.some = Meet(segs.a, segs.b).some
        /\ isect.result.some => RatEq(isect.result.v, Meet(segs.a, segs.b).v)

\* The segments of intersect_test, which cross at t1 = 1/2.
TestSegs == [a |-> ParaLine(Vec(0, -Unit), Vec(0, 2 * Unit)),
             b |-> ParaLine(Vec(-Unit, 0), Vec(2 * Unit, 0))]

C2_TestCaseReached ==
    segs = TestSegs /\ isect.called /\ isect.result = Some(Rat(1, 2))

\* C3: in a run of move_player that hits a wall edge, only the blocked axis
\* is clamped (to position + push) and the other axis advances by the full
\* velocity.
C3_Slide ==
    last.ran /\ last.res.hit =>
        IF last.res.vert
        THEN /\ player.pos.x = last.pos.x + last.res.push.x
             /\ player.pos.y = last.pos.y + last.res.velocity.y
        ELSE /\ player.pos.x = last.pos.x + last.res.velocity.x
             /\ player.pos.y = last.pos.y + last.res.push.y

\* A line that was read holds a cell outside the grammar.
HasBadToken ==
    \E k \in 1..Len(file.lines) :
        file.lines[k].ok /\ file.lines[k].text \in { JoinTabs(r) : r \in BadRows }

\* Opening the file or reading one of its lines failed.
HasIoFailure ==
    ~file.open_ok \/ \E k \in 1..Len(file.lines) : ~file.lines[k].ok

\* C4: load_level never aborts; a cell outside the grammar makes it return a
\* MapParseError, a failure to open or read the file makes it return the I/O
\* error, and in neither case does it return a World.
C4_NeverAborts ==
    loaded # NotLoaded =>
        /\ loaded.kind # "panic"
        /\ HasBadToken /\ ~HasIoFailure => loaded.kind = "MapParseError"
        /\ HasIoFailure => loaded.kind = "Err"
        /\ HasBadToken \/ HasIoFailure => loaded.kind # "Ok"

\* The maps made of well-formed lines with at most one '*'.
StarCount(rows) ==
    Cardinality({ c \in { <<i, j>> : i \in 1..MaxRows, j \in 1..3 } :
                     /\ c[1] <= Len(rows) /\ c[2] <= Len(rows[c[1]])
                     /\ rows[c[1]][c[2]] = Star })

WellFormedMaps ==
    { rows \in UNION { [1..n -> GoodRows] : n \in 0..MaxRows } : StarCount(rows) <= 1 }

\* The tile a cell of the grammar stands for: its kind and, for a spawner,
\* the enemy it spawns.
TokenKind(token) ==
    IF token = Hash THEN "wall"
    ELSE IF token \in {Missile, Laser1, Laser12} THEN "spawner"
    ELSE "none"

TokenEnemy(token) ==
    IF token = Missile THEN [kind |-> "Missile"]
    ELSE IF token = Laser1 THEN [kind |-> "Laser", angle |-> 1]
    ELSE [kind |-> "Laser", angle |-> -12]

\* The world position of the grid cell in line i, column j (both from 1).
GridPosition(i, j) == Vec((j - 1) * 24 * Unit, -((i - 1) * 24 * Unit))

\* The cells of a map in reading order that hold a tile of `kind`.
CellsOf(rows, kind) ==
    { c \in { <<i, j>> : i \in 1..Len(rows), j \in 1..3 } :
          c[2] <= Len(rows[c[1]]) /\ TokenKind(rows[c[1]][c[2]]) = kind }

\* What C5 says of the world loaded from `rows`.
LoadedAs(rows) ==
    /\ loaded.kind = "Ok"
    /\ Len(loaded.world.layout) = Len(rows)
    /\ \A i \in 1..Len(rows) :
           /\ Len(loaded.world.layout[i]) = Len(rows[i])
           /\ \A j \in 1..Len(rows[i]) :
                  /\ loaded.world.layout[i][j].kind = TokenKind(rows[i][j])
                  /\ TokenKind(rows[i][j]) = "spawner" =>
                         loaded.world.layout[i][j].spawner.enemy
                             = TokenEnemy(rows[i][j])
    /\ \A i \in 1..Len(rows) : \A j \in 1..Len(rows[i]) :
           rows[i][j] = Star =>
               loaded.world.player_start_coordinates = <<j - 1, i - 1>>
    /\ StarCount(rows) = 0 => loaded.world.player_start_coordinates = <<0, 0>>

SpawnedAs(rows) ==
    /\ Len(walls) = Cardinality(CellsOf(rows, "wall"))
    /\ \A c \in CellsOf(rows, "wall") :
           \E k \in 1..Len(walls) : walls[k] = GridPosition(c[1], c[2])
    /\ Len(spawners) = Cardinality(CellsOf(rows, "spawner"))
    /\ \A c \in CellsOf(rows, "spawner") :
           \E k \in 1..Len(spawners) :
               /\ spawners[k].pos = GridPosition(c[1], c[2])
               /\ spawners[k].enemy = TokenEnemy(rows[c[1]][c[2]])
    /\ player.pos = Vec(loaded.world.player_start_coordinates[1] * 24 * Unit,
                        -(loaded.world.player_start_coordinates[2] * 24 * Unit))

\* C5: for a well-formed map, load_level returns a World whose layout[i][j]
\* is the tile of cell j of line i, whose player_start is (j, i) of the '*'
\* cell or (0, 0) without one, and spawn_world puts every tile and the player
\* at (j * 24, -i * 24) of its grid coordinate.
C5_WellFormedLoad ==
    \A rows \in WellFormedMaps :
        loaded # NotLoaded /\ file = LevelFile(rows) =>
            /\ LoadedAs(rows)
            /\ appState = "Game" => SpawnedAs(rows)

C5_TwoLineMapSpawned ==
    /\ file = LevelFile(<< <<Hash, Missile>>, <<Laser1, Star>> >>)
    /\ appState = "Game"
    /\ player.pos = Vec(24 * Unit, -(24 * Unit))
    /\ walls = << Vec(0, 0) >>
    /\ Len(spawners) = 2

\* The step is a run of the system `sys`.
RunOf(sys) == order' = Append(order, sys)

\* The step ends a frame.
FrameEnds == frame' = frame + 1

\* The spawners that emitted a spawn event in this frame.
Fired == { k \in 1..Len(fired) : fired[k] }

FirstEventOnTenthTick ==
    \A k \in 1..Len(spawners) :
        sched.same /\ 10 * sched.dt0 = spawners[k].timer.duration =>
            /\ sched.ticks < 10 => sched.first[k] = 0
            /\ sched.ticks >= 10 => sched.first[k] = 10

Overlapped ==
    \E k \in 1..Len(enemies) :
        enemies[k].s_changed /\ IsCollidedWith(player, enemies[k])

Rank(sys) ==
    CASE sys = "update_collision_transforms" -> 1
      [] sys = "spawn_projectiles" -> 2
      [] sys = "move_player" -> 3
      [] sys = "detect_enemy_collision" -> 4

\* C8: within a tick the four systems run in the order
\* update_collision_transforms, spawn_projectiles, move_player,
\* detect_enemy_collision.
C8_FixedOrder ==
    \A a, b \in 1..Len(order) : a < b => Rank(order[a]) < Rank(order[b])

\* C9: a run of move_player with the cursor outside the window leaves the
\* player's Transform (position and orientation) as it was.
C9_CursorAbsentNoOp ==
    [][ ~cursor.some /\ order' = Append(order, "move_player")
            => player'.pos = player.pos /\ player'.angle = player.angle ]_vars

C9_CursorAbsentRan ==
    /\ HasRun("move_player") /\ ~cursor.some
    /\ frame > 0 /\ walls # <<>> /\ "DOUBLE_SPEED" \in upgrades
    /\ last.pos # Vec(24 * Unit, -(24 * Unit)) /\ player.pos = last.pos

\* What the run of move_player recorded in `last` would have done without
\* DOUBLE_SPEED, all else equal.
Baseline ==
    MoveResult([player EXCEPT !.pos = last.pos, !.angle = last.angle],
               walls, cursor, dt, upgrades \ {"DOUBLE_SPEED"})

SqLen(v) == v.x * v.x + v.y * v.y

\* C10 as stated: with DOUBLE_SPEED the displacement of a run of move_player
\* has twice the magnitude of the displacement of that run without it.
C10_DoubleSpeedAlways ==
    HasRun("move_player") /\ "DOUBLE_SPEED" \in upgrades =>
        SqLen(VSub(player.pos, last.pos)) = 4 * SqLen(VSub(Baseline.pos, last.pos))

\* C10, amended: it has twice the magnitude when neither of the two runs hits
\* a wall edge.
C10_DoubleSpeedOpen ==
    HasRun("move_player") /\ "DOUBLE_SPEED" \in upgrades
        /\ ~last.res.hit /\ ~Baseline.hit =>
        SqLen(VSub(player.pos, last.pos)) = 4 * SqLen(VSub(Baseline.pos, last.pos))

C10_DoubledInTheOpen ==
    /\ HasRun("move_player") /\ "DOUBLE_SPEED" \in upgrades
    /\ ~last.res.hit /\ ~Baseline.hit
    /\ player.pos # last.pos /\ walls # <<>>

\* What the run of move_player recorded in `last` would have done without
\* SHRINK, all else equal.
Unshrunk ==
    MoveResult([player EXCEPT !.pos = last.pos, !.angle = last.angle],
               walls, cursor, dt, upgrades \ {"SHRINK"})

\* The distance, on the axis the edge blocks, between the edge that was hit
\* and the centre the player is left at: the distance at which the wall
\* rejected the motion.
Rest(res) ==
    IF res.vert THEN Abs(res.pos.x - res.line.p.x)
    ELSE Abs(res.pos.y - res.line.p.y)

\* C11: with SHRINK the wall resolver works with half the half-extent: the
\* distance from the player's centre at which a wall edge rejects the motion
\* is half of the distance without SHRINK.
C11_ShrinkHalvesRejection ==
    HasRun("move_player") /\ "SHRINK" \in upgrades
        /\ last.res.hit /\ Unshrunk.hit =>
        2 * Rest(last.res) = Rest(Unshrunk)

C11_ShrunkPlayerRejected ==
    /\ HasRun("move_player") /\ "SHRINK" \in upgrades
    /\ last.res.hit /\ Unshrunk.hit
    /\ last.res.line = Unshrunk.line
    /\ player.shape_size = (PLAYER_SIZE * Unit) \div 2

\* The probe segment of the run of move_player recorded in `last`.
ProbeOf(run) ==
    ParaLine(VAdd(run.pos, PolarToCartesian(run.res.angle,
                                            (PLAYER_SIZE * Unit) \div 2)),
             run.res.velocity)

\* The four edges of wall k.
EdgesOf(k) ==
    RectToLines(VSub(walls[k], Vec((TILE_SIZE * Unit) \div 2, (TILE_SIZE * Unit) \div 2)),
                Vec(TILE_SIZE * Unit, TILE_SIZE * Unit))

\* The (wall, edge) pairs on which intersect reports a hit of the probe, over
\* every wall.
HitPairs(probe) ==
    { ke \in (1..Len(walls)) \X (1..4) :
        Intersect(probe, EdgesOf(ke[1])[ke[2]]).some }

HitT(probe, ke) == Intersect(probe, EdgesOf(ke[1])[ke[2]]).v

\* The edge with the minimum t among the hits on all the walls is the one
\* the recorded run resolved, and no other edge pushed the player.
ResolvedGlobalMin(probe) ==
    /\ last.res.hit
    /\ \E ke \in HitPairs(probe) :
          /\ last.res.wall = ke[1]
          /\ last.res.line = EdgesOf(ke[1])[ke[2]]
          /\ RatEq(last.res.t, HitT(probe, ke))
    /\ \A ke \in HitPairs(probe) : RatLe(last.res.t, HitT(probe, ke))
    /\ player.pos = VAdd(last.pos, last.res.push)

\* C12: a tick of move_player resolves the hit with the minimum t among the
\* hits of the probe on the four edges of every wall, resolves exactly one
\* edge, and moves the player by the velocity when no edge of any wall is
\* hit.
C12_GlobalMinimumHit ==
    HasRun("move_player") /\ last.res.moved =>
        IF HitPairs(ProbeOf(last)) = {}
        THEN ~last.res.hit /\ player.pos = VAdd(last.pos, last.res.velocity)
        ELSE ResolvedGlobalMin(ProbeOf(last))

C12_LaterWallNearer ==
    /\ HasRun("move_player") /\ last.res.moved /\ last.res.hit
    /\ \E ke \in HitPairs(ProbeOf(last)) :
          ke[1] > last.res.wall /\ RatLt(HitT(ProbeOf(last), ke), last.res.t)

\* C13: intersect is symmetric in reporting a hit: for segments a and b with
\* non-zero direction vectors, intersect(a, b) is Some exactly when
\* intersect(b, a) is Some.
C13_IntersectSymmetric ==
    isect.called /\ segs.a.v # Vec(0, 0) /\ segs.b.v # Vec(0, 0) =>
        (isect.result.some <=> Intersect(segs.b, segs.a).some)

C13_BothOrdersSome ==
    /\ isect.called /\ segs.a.v # Vec(0, 0) /\ segs.b.v # Vec(0, 0)
    /\ segs.a # segs.b
    /\ isect.result.some /\ Intersect(segs.b, segs.a).some
====
